---- MODULE Spec2Model ----
(***************************************************************************)
(* State-machine model of src/forth.py: AICollaborationSystem.             *)
(*                                                                         *)
(* Strings are sequences of tokens, so that concatenation, substring       *)
(* search and str.lower() are computed rather than assumed.  Python dicts  *)
(* that are shared by reference (the query dict) live in `heap` and are    *)
(* named by their index; a history entry that stores `query` stores the    *)
(* reference, exactly as the list of dicts does.                           *)
(*                                                                         *)
(* Time is kept by two saturating stopwatches instead of an absolute       *)
(* clock: the code only ever compares time.time() - last_request_time      *)
(* with min_request_interval, so every elapsed time >= the interval is     *)
(* the same to it.                                                         *)
(***************************************************************************)
EXTENDS Integers, Sequences, FiniteSets, TLC

VARIABLES
    pc,                   \* where the single asyncio task is suspended
    workflow_state,       \* self.workflow_state
    conversation_history, \* self.conversation_history
    store,                \* data/conversation_history.json
    heap,                 \* the query dicts, by reference
    query,                \* process_query: the reference held in `query`
    entered_text,         \* the text the user entered for the current query
    iteration,            \* process_query: iteration
    solution,             \* process_query: solution
    review,               \* process_query: review
    previous_review,      \* _get_engineer_solution: previous_review
    attempt,              \* _make_api_request: attempt
    attempts_made,        \* attempts made by the dispatch in progress or just ended
    request_messages,     \* _make_api_request: request_data['messages'] (roles)
    sinceLast,            \* time.time() - self.last_request_time, saturating
    sinceAttempt,         \* time since the previous attempt completed, saturating
    attempt_gap,          \* time between the attempt just completed and the one before
    calls,                \* Solver Adapter invocations for the current query
    notice,               \* what process_query printed when it ended
    user_input,           \* the raw line the decision prompt just read
    event,                \* the step of the task taken last
    queries_entered,      \* queries read by run() in this session
    review_threads,       \* to_thread workers still inside messages.create
    backoff_wait,         \* the backoff sleep the last step took, 0 if none
    response_text,        \* _extract_thinking_steps: the text under study
    thinking              \* _extract_thinking_steps: its result

vars == <<pc, workflow_state, conversation_history, store, heap, query, entered_text,
          iteration, solution, review, previous_review, attempt, attempts_made,
          request_messages, sinceLast,
          sinceAttempt, attempt_gap, calls, notice, user_input, event,
          queries_entered, review_threads, backoff_wait, response_text, thinking>>

(***************************************************************************)
(* Program constants                                                       *)
(***************************************************************************)
max_iterations == 5
min_request_interval == 12
max_attempts == 3
history_keep == 10
backoff_cap == 10
review_timeout == 30

(***************************************************************************)
(* Bounds of the model                                                     *)
(***************************************************************************)
MaxQueries == 1        \* queries entered in one session
MaxLatency == 1        \* seconds an HTTP exchange may take
MaxThreads == 1        \* abandoned review threads alive at one time

(***************************************************************************)
(* Strings                                                                 *)
(***************************************************************************)
None == <<>>           \* None and "" are both falsy and never told apart

SentinelMessage == <<"Could not generate a solution at this time.">>
KeyErrorMessage == <<"'choices'">>
PreviousSolutionLabel == <<"Previous solution: ">>
RevisionRequestLabel == <<"\nRevision request: ">>
OriginalQueryLabel == <<"\nOriginal query: ">>

\* One token through str.lower().
LowerToken(t) ==
    CASE t = "Y" -> "y"
      [] t = "N" -> "n"
      [] t = "Fix bug" -> "fix bug"
      [] OTHER -> t

\* str.lower()
Lower(s) == [i \in 1..Len(s) |-> LowerToken(s[i])]

\* pat occurs in s starting at index i
OccursAt(s, pat, i) ==
    /\ i >= 1
    /\ i + Len(pat) - 1 <= Len(s)
    /\ \A k \in 1..Len(pat) : s[i + k - 1] = pat[k]

\* `pat in s`
Contains(s, pat) == \E i \in 1..(Len(s) + 1) : OccursAt(s, pat, i)

\* The inputs
QueryTexts == {<<"sort a list">>}
AttachmentChoices == {<<>>, <<"bytes">>}
Contents == {<<"S1">>, <<>>}
Reviews == {<<"R1">>, <<"R2">>}
DecisionInputs == {<<"y">>, <<"Y">>, <<"n">>, <<"fix bug">>, <<"Fix bug">>}
FaultPoints == {"before_response", "after_response"}
Delays == {0, min_request_interval}

(***************************************************************************)
(* Stopwatches                                                             *)
(***************************************************************************)
Min(a, b) == IF a < b THEN a ELSE b

Elapse(c, d) == Min(c + d, min_request_interval)

RECURSIVE Pow2(_)
Pow2(n) == IF n = 0 THEN 1 ELSE 2 * Pow2(n - 1)

\* lines 101-104: the pacing sleep before an attempt
PacingWait(since) ==
    IF since < min_request_interval THEN min_request_interval - since ELSE 0

HttpBackoffLinear(a) == a + 1

\* line 157: the sleep after an HTTP non-success status
HttpBackoff(a) == Pow2(a)

\* line 167: the sleep after an exception
FaultBackoff(a) == Min(Pow2(a), backoff_cap)

(***************************************************************************)
(* History entries                                                         *)
(***************************************************************************)
\* item.get('review')
GetReview(item) == IF "review" \in DOMAIN item THEN item.review ELSE None

\* An entry as a reader sees it: the query reference followed.
EntryView(item, hp) == [item EXCEPT !.query = hp[item.query]]

HistoryView(h, hp) == [i \in 1..Len(h) |-> EntryView(h[i], hp)]

\* h[-n:]
LastN(h, n) ==
    IF Len(h) <= n THEN h ELSE SubSeq(h, Len(h) - n + 1, Len(h))

\* json.dump raises TypeError on bytes; the query dict of an attachment holds
\* them under files[i]['content'] (lines 261-267).
Serializable(item) == item.query.files = <<>>

\* lines 58-65.  open(..., 'w') truncates the file; json.dump streams the
\* entries until one cannot be encoded, which leaves a file that is not JSON.
save_conversation_history(h, hp) ==
    LET kept == HistoryView(LastN(h, history_keep), hp)
    IN  IF \A i \in 1..Len(kept) : Serializable(kept[i])
        THEN [valid |-> TRUE, entries |-> kept]
        ELSE [valid |-> FALSE, entries |-> <<>>]

(***************************************************************************)
(* _extract_thinking_steps.  A text is a sequence of tokens; the token      *)
(* "\n" ends a line, the tokens of Whitespace are what str.strip removes.   *)
(***************************************************************************)
\* lines 70-75: the sections and their delimiter tokens, in dict order
cot_tokens ==
    << [name |-> "reasoning",    token |-> "[THINK]"],
       [name |-> "verification", token |-> "[VERIFY]"],
       [name |-> "conclusion",   token |-> "[CONCLUDE]"],
       [name |-> "reflection",   token |-> "[REFLECT]"] >>

Whitespace == {" ", "\t"}

\* line 188: response_text.split('\n')
RECURSIVE SplitLines(_)
SplitLines(text) ==
    IF \A i \in 1..Len(text) : text[i] # "\n"
    THEN <<text>>
    ELSE LET i == CHOOSE k \in 1..Len(text) :
                      /\ text[k] = "\n"
                      /\ \A j \in 1..(k - 1) : text[j] # "\n"
         IN  <<SubSeq(text, 1, i - 1)>> \o SplitLines(SubSeq(text, i + 1, Len(text)))

\* '\n'.join(lines)
RECURSIVE JoinLines(_)
JoinLines(lines) ==
    IF lines = <<>> THEN <<>>
    ELSE IF Len(lines) = 1 THEN lines[1]
    ELSE lines[1] \o <<"\n">> \o JoinLines(Tail(lines))

RECURSIVE LStrip(_)
LStrip(line) ==
    IF line # <<>> /\ line[1] \in Whitespace THEN LStrip(Tail(line)) ELSE line

RECURSIVE RStrip(_)
RStrip(line) ==
    IF line # <<>> /\ line[Len(line)] \in Whitespace
    THEN RStrip(SubSeq(line, 1, Len(line) - 1))
    ELSE line

StripNone(line) == line

\* line 191: line.strip()
Strip(line) == RStrip(LStrip(line))

\* lines 197-198: the first section, in dict order, whose token is in the
\* line; "" when the line holds no token
SectionOf(line) ==
    IF \E i \in 1..Len(cot_tokens) : Contains(line, <<cot_tokens[i].token>>)
    THEN cot_tokens[CHOOSE i \in 1..Len(cot_tokens) :
                        /\ Contains(line, <<cot_tokens[i].token>>)
                        /\ \A j \in 1..(i - 1) :
                               ~Contains(line, <<cot_tokens[j].token>>)].name
    ELSE ""

\* lines 199-200 and 212-213: the open section is stored if it has content
CloseSection(sections, current_section, current_content) ==
    IF current_section # "" /\ current_content # <<>>
    THEN [n \in (DOMAIN sections) \cup {current_section} |->
              IF n = current_section THEN JoinLines(current_content)
              ELSE sections[n]]
    ELSE sections

\* lines 190-213
RECURSIVE ScanLines(_, _, _, _, _)
ScanLines(lines, i, sections, current_section, current_content) ==
    IF i > Len(lines)
    THEN CloseSection(sections, current_section, current_content)
    ELSE LET line == Strip(lines[i])
         IN  IF line = <<>>
             THEN ScanLines(lines, i + 1, sections, current_section,
                            current_content)
             ELSE IF SectionOf(line) # ""
             THEN ScanLines(lines, i + 1,
                            CloseSection(sections, current_section,
                                         current_content),
                            SectionOf(line), <<>>)
             ELSE IF current_section # ""
             THEN ScanLines(lines, i + 1, sections, current_section,
                            Append(current_content, line))
             ELSE ScanLines(lines, i + 1, sections, current_section,
                            current_content)

\* sections.get(name, "")
SectionGet(sections, name) ==
    IF name \in DOMAIN sections THEN sections[name] ELSE <<>>

\* lines 174-227.  A response without 'choices' gives the error payload;
\* the timestamp of line 223 is left out.
extract_thinking_steps(response) ==
    IF response.kind # "ok"
    THEN [error |-> "Invalid response data"]
    ELSE LET sections == ScanLines(SplitLines(response.content), 1, <<>>, "", <<>>)
         IN  [raw_response |-> response.content,
              structured_sections |-> sections,
              meta |-> [has_verification |-> "verification" \in DOMAIN sections,
                        has_reflection |-> "reflection" \in DOMAIN sections,
                        reasoning_depth |->
                            Len(SplitLines(SectionGet(sections, "reasoning")))]]

\* lines 289-295
RECURSIVE LatestReview(_, _)
LatestReview(h, i) ==
    IF i = 0 THEN None
    ELSE IF GetReview(h[i]) # None THEN GetReview(h[i])
    ELSE LatestReview(h, i - 1)

PreviousReviewAlways(h, text) == LatestReview(h, Len(h))

\* lines 290-295: the history is searched only for a query text that a
\* revise decision has rewritten
PreviousReview(h, text) ==
    IF Contains(text, PreviousSolutionLabel) THEN LatestReview(h, Len(h)) ELSE None

\* line 300
ReviewPointsLabel ==
    <<"IMPORTANT - Address these review points from the previous iteration:">>

\* lines 298-309
EngineerPrompt(prev, text) ==
    <<"Acting as a Senior Software Engineer, ...">>
        \o (IF prev # None THEN ReviewPointsLabel \o prev ELSE <<>>)
        \o <<"Query: ">> \o text
        \o <<"Follow these guidelines: ...">>

\* lines 327-335
EngineerEntry(q, response, prev) ==
    [type |-> "engineer_solution",
     query |-> q,
     response |-> response,
     thinking_process |-> extract_thinking_steps(response),
     previous_review |-> prev,
     addressed_feedback |-> (prev # None)]

\* lines 492-498
CompletedEntry(q, sol, rev) ==
    [query |-> q, solution |-> sol, review |-> rev, workflow_state |-> "COMPLETED"]

\* line 506
RevisedText(sol, response, text) ==
    PreviousSolutionLabel \o sol \o RevisionRequestLabel \o response
        \o OriginalQueryLabel \o text

(***************************************************************************)
(* process_query: the loop head                                            *)
(***************************************************************************)
\* process_query returns to run(), which prompts for the next query.  The
\* locals of the finished call are gone.
Return(n) ==
    /\ pc' = "input"
    /\ notice' = n
    /\ solution' = None
    /\ review' = None
    /\ previous_review' = None
    /\ attempt' = 0
    /\ request_messages' = <<>>

LoopTestOffByOne(it) == it <= max_iterations

\* line 457
LoopTest(it) == it < max_iterations

\* lines 457-462, 289-319 and 508: the loop test; then either iteration += 1
\* and the Solver Adapter up to its first dispatch attempt, or the notice
\* after the loop.  solution and review are assigned again before any read,
\* so the model clears them here.
LoopHead(it, c) ==
    IF LoopTest(it)
    THEN /\ iteration' = it + 1
         /\ calls' = c + 1
         /\ pc' = "dispatch"
         /\ notice' = "none"
         /\ solution' = None
         /\ review' = None
         /\ previous_review' =
                PreviousReview(conversation_history', heap'[query'].text)
         /\ attempt' = 1
         /\ request_messages' = <<"user">>
    ELSE /\ iteration' = it
         /\ calls' = c
         /\ Return("max_iterations")

(***************************************************************************)
(* run / _get_user_input                                                   *)
(***************************************************************************)
\* lines 516-520, 231-242 and 454-455: a query is read and process_query
\* starts on it.
get_user_input ==
    /\ pc = "input"
    /\ queries_entered < MaxQueries
    /\ queries_entered' = queries_entered + 1
    /\ backoff_wait' = 0
    /\ UNCHANGED <<review_threads, response_text, thinking>>
    /\ \E text \in QueryTexts, files \in AttachmentChoices :
         /\ heap' = Append(heap, [text |-> text, files |-> files])
         /\ entered_text' = text
    /\ query' = Len(heap) + 1
    /\ workflow_state' = "PROCESSING"
    /\ \E d \in Delays :
         /\ sinceLast' = Elapse(sinceLast, d)
         /\ sinceAttempt' = Elapse(sinceAttempt, d)
    /\ attempt_gap' = min_request_interval
    /\ user_input' = None
    /\ attempts_made' = 0
    /\ event' = "query"
    /\ UNCHANGED <<conversation_history, store>>
    /\ LoopHead(0, 0)

\* lines 234-235 and 517-518: 'exit' ends the session.
user_exit ==
    /\ pc = "input"
    /\ pc' = "ended"
    /\ event' = "exit"
    /\ user_input' = None
    /\ attempt_gap' = min_request_interval
    /\ attempts_made' = 0
    /\ backoff_wait' = 0
    /\ UNCHANGED <<queries_entered, review_threads, response_text, thinking>>
    /\ UNCHANGED <<workflow_state, conversation_history, store, heap, query,
                   entered_text, iteration, solution, review, previous_review,
                   attempt, request_messages, sinceLast, sinceAttempt, calls,
                   notice>>

(***************************************************************************)
(* _get_engineer_solution after its dispatch, and the engine after it      *)
(***************************************************************************)
\* attempts this dispatch made before the one now taken
AttemptsBefore == IF event = "retry" THEN attempts_made ELSE 0

\* lines 322-350: what the Solver Adapter returns for a dispatch result.
\* A {"error": ...} dict is truthy, is recorded, and then fails the
\* ['choices'] lookup of line 344, whose KeyError line 350 turns into text.
SolutionOf(response) ==
    CASE response.kind = "none" -> SentinelMessage
      [] response.kind = "error" -> KeyErrorMessage
      [] OTHER -> response.content

\* lines 322-335
HistoryAfterSolver(h, q, response, prev) ==
    IF response.kind = "none" THEN h
    ELSE Append(h, EngineerEntry(q, response, prev))

\* `if not solution` (line 463)
NoSolution(sol) == sol = None

\* lines 322-350 and 463-475
SolverReturns(response) ==
    /\ conversation_history' =
           HistoryAfterSolver(conversation_history, query, response, previous_review)
    /\ UNCHANGED <<store, heap, query, entered_text, queries_entered,
                   review_threads, response_text, thinking>>
    /\ user_input' = None
    /\ backoff_wait' = 0
    /\ attempts_made' = AttemptsBefore + 1
    /\ IF NoSolution(SolutionOf(response))
       THEN /\ workflow_state' = workflow_state
            /\ LoopHead(iteration, calls)
       ELSE /\ workflow_state' = "ENGINEER_COMPLETE"
            /\ solution' = SolutionOf(response)
            /\ pc' = "review"
            /\ review' = None
            /\ previous_review' = None
            /\ attempt' = 0
            /\ request_messages' = <<>>
            /\ UNCHANGED <<iteration, calls, notice>>

(***************************************************************************)
(* _make_api_request: one attempt per step                                 *)
(***************************************************************************)
\* line 125
InsertSystemMessage(messages) == <<"system">> \o messages

\* lines 108-148: the messages of the request the attempt now due posts.
\* request_messages is request_data['messages'] as the call receives it, and
\* line 125 inserts the system message into that same list.
RequestSent == InsertSystemMessage(request_messages)

\* The attempt completes `latency` after it is sent, and it is sent after
\* the pacing sleep: the time since the previous attempt completed.
GapAtCompletion(latency) ==
    Elapse(Elapse(sinceAttempt, PacingWait(sinceLast)), latency)

MayRetryOffByOne(a) == a <= max_attempts

\* lines 156 and 166
MayRetry(a) == a < max_attempts

RetryCountsIteration(backoff, since) ==
    /\ attempt' = attempt + 1
    /\ attempts_made' = AttemptsBefore + 1
    /\ request_messages' = InsertSystemMessage(request_messages)
    /\ sinceLast' = Elapse(since, backoff)
    /\ sinceAttempt' = Elapse(0, backoff)
    /\ backoff_wait' = backoff
    /\ user_input' = None
    /\ event' = "retry"
    /\ iteration' = Min(iteration + 1, max_iterations)
    /\ UNCHANGED <<queries_entered, review_threads, response_text, thinking>>
    /\ UNCHANGED <<pc, workflow_state, conversation_history, store, heap, query,
                   entered_text, solution, review, previous_review, calls,
                   notice>>

\* lines 156-158 and 166-170: sleep, then the recursive call
Retry(backoff, since) ==
    /\ attempt' = attempt + 1
    /\ attempts_made' = AttemptsBefore + 1
    /\ request_messages' = InsertSystemMessage(request_messages)
    /\ sinceLast' = Elapse(since, backoff)
    /\ sinceAttempt' = Elapse(0, backoff)
    /\ backoff_wait' = backoff
    /\ user_input' = None
    /\ event' = "retry"
    /\ UNCHANGED <<queries_entered, review_threads, response_text, thinking>>
    /\ UNCHANGED <<pc, workflow_state, conversation_history, store, heap, query,
                   entered_text, iteration, solution, review, previous_review, calls,
                   notice>>

\* lines 101-151 and 161: status 200
make_api_request_success ==
    /\ pc = "dispatch"
    /\ \E latency \in 0..MaxLatency : attempt_gap' = GapAtCompletion(latency)
    /\ sinceLast' = 0
    /\ sinceAttempt' = 0
    /\ event' = "solver_ok"
    /\ \E content \in Contents : SolverReturns([kind |-> "ok", content |-> content])

\* lines 101-159: a status other than 200
make_api_request_http_error ==
    /\ pc = "dispatch"
    /\ \E latency \in 0..MaxLatency : attempt_gap' = GapAtCompletion(latency)
    /\ IF MayRetry(attempt)
       THEN Retry(HttpBackoff(attempt), 0)
       ELSE /\ sinceLast' = 0
            /\ sinceAttempt' = 0
            /\ event' = "solver_failed"
            /\ SolverReturns([kind |-> "error", content |-> None])

\* lines 101-150 and 163-172: an exception, raised by the POST before a
\* response arrived (line 151 not reached) or while the response was read
\* (after line 151)
make_api_request_fault ==
    /\ pc = "dispatch"
    /\ \E latency \in 0..MaxLatency, point \in FaultPoints :
         LET since == IF point = "after_response" THEN 0
                      ELSE Elapse(Elapse(sinceLast, PacingWait(sinceLast)), latency)
         IN  /\ attempt_gap' = GapAtCompletion(latency)
             /\ IF MayRetry(attempt)
                THEN Retry(FaultBackoff(attempt), since)
                ELSE /\ sinceLast' = since
                     /\ sinceAttempt' = 0
                     /\ event' = "solver_failed"
                     /\ SolverReturns([kind |-> "none", content |-> None])

(***************************************************************************)
(* _get_architect_review                                                   *)
(***************************************************************************)
NoReviewNever(rev) == FALSE

\* `if not review` (line 476)
NoReview(rev) == rev = None

\* the number of trailing history entries line 357 looks at
review_window == 3

\* reversed(s)
Reverse(s) == [i \in 1..Len(s) |-> s[Len(s) + 1 - i]]

\* lines 355-359: the non-empty reviews among the last three entries of the
\* history, the latest first
previous_reviews(h) ==
    LET window == Reverse(LastN(h, review_window))
        found == SelectSeq(window, LAMBDA item : GetReview(item) # None)
    IN  [i \in 1..Len(found) |-> GetReview(found[i])]

\* lines 361-366: "Review 1", "Review 2", ... of the prompt, in that order
review_context(h) == Reverse(previous_reviews(h))

\* What a review call can come to: the text of line 447, an exception of
\* the client (lines 448-450), or the timeout of line 368.
ReviewOutcomes ==
    [kind : {"text"}, text : Reviews] \cup [kind : {"fault", "timeout"}, text : {None}]

\* The time the await of lines 368-446 takes.
ReviewDurations(outcome) ==
    IF outcome.kind = "timeout" THEN {review_timeout} ELSE Delays

\* asyncio.timeout cancels the await of line 369, not the worker thread that
\* asyncio.to_thread started: the thread stays inside messages.create.
ThreadsAfterReview(n, outcome) == IF outcome.kind = "timeout" THEN n + 1 ELSE n

\* lines 352-450 and 475-484: the review service answers with text, or the
\* call fails or times out and the adapter returns None
get_architect_review ==
    /\ pc = "review"
    /\ attempt_gap' = min_request_interval
    /\ attempts_made' = 0
    /\ backoff_wait' = 0
    /\ user_input' = None
    /\ UNCHANGED <<conversation_history, store, heap, query, entered_text,
                   queries_entered, response_text, thinking>>
    /\ \E outcome \in ReviewOutcomes :
         /\ ThreadsAfterReview(review_threads, outcome) <= MaxThreads
         /\ \E d \in ReviewDurations(outcome) :
              /\ sinceLast' = Elapse(sinceLast, d)
              /\ sinceAttempt' = Elapse(sinceAttempt, d)
         /\ review_threads' = ThreadsAfterReview(review_threads, outcome)
         /\ event' = IF outcome.kind = "text" THEN "review_ok" ELSE "review_failed"
         /\ IF NoReview(outcome.text)
            THEN /\ workflow_state' = workflow_state
                 /\ LoopHead(iteration, calls)
            ELSE /\ review' = outcome.text
                 /\ workflow_state' = "ARCHITECT_COMPLETE"
                 /\ pc' = "decide"
                 /\ UNCHANGED <<iteration, solution, previous_review, attempt,
                                request_messages, calls, notice>>

\* The remote call of an abandoned worker thread comes to its end.
review_thread_ends ==
    /\ review_threads > 0
    /\ review_threads' = review_threads - 1
    /\ UNCHANGED <<pc, workflow_state, conversation_history, store, heap, query,
                   entered_text, iteration, solution, review, previous_review,
                   attempt, attempts_made, request_messages, sinceLast,
                   sinceAttempt, attempt_gap, calls, notice, user_input, event,
                   queries_entered, backoff_wait, response_text, thinking>>

DecisionRejectSaves(response) ==
    IF response \in {<<"y">>, <<"n">>} THEN "accept" ELSE "revise"

\* lines 490, 502 and 504: the branch the lowered input line selects
Decision(response) ==
    IF response = <<"y">> THEN "accept"
    ELSE IF response = <<"n">> THEN "reject"
    ELSE "revise"


(***************************************************************************)
(* The user decision                                                       *)
(***************************************************************************)
\* lines 487-506
user_decision ==
    /\ pc = "decide"
    /\ \E line \in DecisionInputs :
         LET response == Lower(line)
         IN  /\ user_input' = line
             /\ IF Decision(response) = "accept"
                THEN /\ conversation_history' =
                            Append(conversation_history,
                                   CompletedEntry(query, solution, review))
                     /\ store' = save_conversation_history(conversation_history', heap)
                     /\ event' = "accept"
                     /\ UNCHANGED <<workflow_state, heap, query, iteration, calls>>
                     /\ Return("none")
                ELSE IF Decision(response) = "reject"
                THEN /\ event' = "reject"
                     /\ UNCHANGED <<workflow_state, conversation_history, store,
                                    heap, query, iteration, calls>>
                     /\ Return("max_iterations")
                ELSE /\ workflow_state' = "REVISION_NEEDED"
                     /\ heap' = [heap EXCEPT ![query].text =
                                     RevisedText(solution, response, @)]
                     /\ event' = "revise"
                     /\ UNCHANGED <<conversation_history, store, query>>
                     /\ LoopHead(iteration, calls)
    /\ \E d \in Delays :
         /\ sinceLast' = Elapse(sinceLast, d)
         /\ sinceAttempt' = Elapse(sinceAttempt, d)
    /\ attempt_gap' = min_request_interval
    /\ attempts_made' = 0
    /\ backoff_wait' = 0
    /\ UNCHANGED <<entered_text, queries_entered, review_threads, response_text,
                   thinking>>

(***************************************************************************)
(* The specification                                                       *)
(***************************************************************************)
\* The history file before the program starts: none yet, or the one an
\* earlier session left after one accepted query.
NoHistoryFile == [valid |-> TRUE, entries |-> <<>>]

EarlierQueries ==
    << [text |-> <<"earlier query 1">>, files |-> <<>>],
       [text |-> <<"earlier query 2">>, files |-> <<>>] >>

\* two queries, each accepted in its first iteration
EarlierSession ==
    save_conversation_history(
        << EngineerEntry(1, [kind |-> "ok", content |-> <<"S0">>], None),
           CompletedEntry(1, <<"S0">>, <<"earlier review 1">>),
           EngineerEntry(2, [kind |-> "ok", content |-> <<"S0">>], None),
           CompletedEntry(2, <<"S0">>, <<"earlier review 2">>) >>,
        EarlierQueries)

\* lines 47-56: json.load builds a dict of its own for the query of every
\* entry; a file that cannot be read gives an empty history.
load_conversation_history(file) ==
    IF file.valid
    THEN [history |-> [i \in 1..Len(file.entries) |->
                           [file.entries[i] EXCEPT !.query = i]],
          objects |-> [i \in 1..Len(file.entries) |-> file.entries[i].query]]
    ELSE [history |-> <<>>, objects |-> <<>>]

\* lines 15-25 and 27-56: the state after construction and initialize()
Initialized(file, position, text) ==
    /\ pc = position
    /\ workflow_state = "INITIAL"
    /\ conversation_history = load_conversation_history(file).history
    /\ store = file
    /\ heap = load_conversation_history(file).objects
    /\ query = 0
    /\ entered_text = None
    /\ iteration = 0
    /\ solution = None
    /\ review = None
    /\ previous_review = None
    /\ attempt = 0
    /\ attempts_made = 0
    /\ request_messages = <<>>
    /\ sinceLast = min_request_interval
    /\ sinceAttempt = min_request_interval
    /\ attempt_gap = min_request_interval
    /\ calls = 0
    /\ notice = "none"
    /\ user_input = None
    /\ event = "init"
    /\ queries_entered = 0
    /\ review_threads = 0
    /\ backoff_wait = 0
    /\ response_text = text
    /\ thinking = None

\* a first session: no history file yet
Init == Initialized(NoHistoryFile, "input", None)

\* a later session: the history file of an earlier one is loaded
InitLoaded == Initialized(EarlierSession, "input", None)

Next ==
    \/ get_user_input
    \/ user_exit
    \/ make_api_request_success
    \/ make_api_request_http_error
    \/ make_api_request_fault
    \/ get_architect_review
    \/ review_thread_ends
    \/ user_decision

Spec == Init /\ [][Next]_vars

SpecLoaded == InitLoaded /\ [][Next]_vars

(***************************************************************************)
(* _extract_thinking_steps on its own                                      *)
(***************************************************************************)
SectionNames == {cot_tokens[i].name : i \in 1..Len(cot_tokens)}

TokenOf(name) ==
    cot_tokens[CHOOSE i \in 1..Len(cot_tokens) : cot_tokens[i].name = name].token

\* The content that follows a delimiter line: the lines as they stand in the
\* text, the same without the blank ones, and those with the surrounding
\* whitespace of each line removed.
SectionBodies ==
    { [lines    |-> << <<"a">> >>,
       nonblank |-> << <<"a">> >>,
       trimmed  |-> << <<"a">> >>],
      [lines    |-> << <<"a">>, <<>>, <<" ">>, <<"b">> >>,
       nonblank |-> << <<"a">>, <<"b">> >>,
       trimmed  |-> << <<"a">>, <<"b">> >>],
      [lines    |-> << <<" ", "c", " ", "d", "\t">> >>,
       nonblank |-> << <<" ", "c", " ", "d", "\t">> >>,
       trimmed  |-> << <<"c", " ", "d">> >>] }

SectionOrders ==
    { <<"reasoning", "verification", "conclusion", "reflection">>,
      <<"reflection", "conclusion", "verification", "reasoning">> }

\* A text with exactly the four delimiter tokens, each on a line of its own
\* and followed by the body of its section.
ParserCases == [order : SectionOrders, body : [SectionNames -> SectionBodies]]

RECURSIVE CaseLines(_, _)
CaseLines(c, i) ==
    IF i > Len(c.order) THEN <<>>
    ELSE <<<<TokenOf(c.order[i])>>>> \o c.body[c.order[i]].lines
             \o CaseLines(c, i + 1)

CaseText(c) == JoinLines(CaseLines(c, 1))

\* Texts that hold no delimiter token.
PlainTexts ==
    { <<>>, <<"x">>, <<"x", "\n", "y">>, <<" ", "x", "\n", "\n", "y">> }

ParserTexts == {CaseText(c) : c \in ParserCases} \cup PlainTexts

InitParser == \E text \in ParserTexts : Initialized(NoHistoryFile, "parser", text)

\* lines 174-227 applied to a response that carries the text
parse_response ==
    /\ pc = "parser"
    /\ pc' = "parsed"
    /\ thinking' = extract_thinking_steps([kind |-> "ok", content |-> response_text])
    /\ UNCHANGED <<workflow_state, conversation_history, store, heap, query,
                   entered_text, iteration, solution, review, previous_review,
                   attempt, attempts_made, request_messages, sinceLast,
                   sinceAttempt, attempt_gap, calls, notice, user_input, event,
                   queries_entered, review_threads, backoff_wait, response_text>>

NextParser == parse_response

SpecParser == InitParser /\ [][NextParser]_vars

(***************************************************************************)
(* Properties                                                              *)
(***************************************************************************)
\* a, then b, then c occur in text, one after the other without overlap
InOrder(text, a, b, c) ==
    \E i, j, k \in 1..(Len(text) + 1) :
        /\ OccursAt(text, a, i)
        /\ OccursAt(text, b, j)
        /\ OccursAt(text, c, k)
        /\ i + Len(a) <= j
        /\ j + Len(b) <= k

\* the steps after which the loop of process_query goes round again
ContinuingEvents == {"revise", "review_failed", "solver_ok", "solver_failed"}

\* C1: a query never sees more than 5 iterations, that is 5 Solver Adapter
\* invocations; when the loop is left without an accept or a reject, 5
\* iterations were run and the exhaustion notice was printed.
C1_IterationCap ==
    /\ calls <= max_iterations
    /\ iteration <= max_iterations
    /\ (pc = "input" /\ event \in ContinuingEvents) =>
           (calls = max_iterations /\ notice = "max_iterations")

\* C1: the fifth iteration ended with a revise decision and the query ended
\* in exhaustion.
C1_Witness ==
    /\ pc = "input"
    /\ event = "revise"
    /\ calls = max_iterations
    /\ notice = "max_iterations"

\* C2: an accept appends exactly one CompletedConversation entry holding the
\* solution and the review of that iteration, persists the history so that
\* the store ends with that entry, and returns to the prompt for the next
\* query with no further Solver or Reviewer call.
C2_AcceptPersists ==
    [][(pc = "decide" /\ event' = "accept") =>
          /\ conversation_history' =
                 Append(conversation_history,
                        [query |-> query, solution |-> solution, review |-> review,
                         workflow_state |-> "COMPLETED"])
          /\ store'.valid
          /\ Len(store'.entries) > 0
          /\ store'.entries[Len(store'.entries)] =
                 [query |-> heap'[query], solution |-> solution, review |-> review,
                  workflow_state |-> "COMPLETED"]
          /\ pc' = "input"
          /\ calls' = calls
          /\ iteration' = iteration]_vars

\* C3: when the Solver Adapter's dispatch is exhausted, the engine leaves
\* workflow_state alone, calls neither the Reviewer Adapter nor the user,
\* and goes on to the next iteration (or to the exhaustion notice after the
\* fifth).
C3_SolverFailureSkips ==
    [][(pc = "dispatch" /\ event' = "solver_failed") =>
          /\ workflow_state' = workflow_state
          /\ pc' \notin {"review", "decide"}
          /\ IF iteration < max_iterations
             THEN iteration' = iteration + 1 /\ pc' = "dispatch"
             ELSE pc' = "input" /\ notice' = "max_iterations"]_vars

\* C4: when the Reviewer Adapter fails, workflow_state is not advanced to
\* ARCHITECT_COMPLETE, the user is not asked, the review is not retried, and
\* the next iteration starts with a Solver call (after the fifth iteration
\* the query ends in exhaustion).
C4_ReviewFailureSkips ==
    [][(pc = "review" /\ event' = "review_failed") =>
          /\ workflow_state' = workflow_state
          /\ workflow_state' # "ARCHITECT_COMPLETE"
          /\ pc' \notin {"review", "decide"}
          /\ conversation_history' = conversation_history
          /\ IF iteration < max_iterations
             THEN /\ iteration' = iteration + 1
                  /\ pc' = "dispatch"
                  /\ attempt' = 1
             ELSE /\ iteration' = iteration
                  /\ pc' = "input"
                  /\ notice' = "max_iterations"]_vars

\* C4: a review failed before the fifth iteration and the next iteration's
\* Solver call is being dispatched.
C4_Witness ==
    /\ event = "review_failed"
    /\ pc = "dispatch"
    /\ iteration > 1
    /\ workflow_state = "ENGINEER_COMPLETE"

\* the edges of the state machine of workflow_state
WorkflowEdges ==
    {<<"INITIAL", "PROCESSING">>,
     <<"PROCESSING", "ENGINEER_COMPLETE">>,
     <<"ENGINEER_COMPLETE", "ARCHITECT_COMPLETE">>,
     <<"ARCHITECT_COMPLETE", "REVISION_NEEDED">>,
     <<"REVISION_NEEDED", "PROCESSING">>}

\* C5: every change of workflow_state follows an edge of the state machine,
\* or is the move to PROCESSING on a new query.
C5_WorkflowEdgesOnly ==
    [][workflow_state' # workflow_state =>
          \/ <<workflow_state, workflow_state'>> \in WorkflowEdges
          \/ (event' = "query" /\ workflow_state' = "PROCESSING")]_vars

\* C6: one dispatch makes at most 3 attempts, whatever mix of HTTP errors and
\* exceptions its attempts meet, and after the last failed attempt the Solver
\* Adapter has a value in hand and produces its text: nothing was raised
\* past _make_api_request.
C6_AttemptCap ==
    /\ attempts_made <= max_attempts
    /\ attempt <= max_attempts
    /\ event = "solver_failed" =>
           /\ attempts_made = max_attempts
           /\ pc = "review"
           /\ solution \in {SentinelMessage, KeyErrorMessage}

\* C6: a dispatch was exhausted by its third failed attempt.
C6_Witness ==
    /\ event = "solver_failed"
    /\ attempts_made = max_attempts
    /\ solution = SentinelMessage

\* C7: every attempt completes at least min_request_interval after the
\* attempt before it.
C7_PacingGap == attempt_gap >= min_request_interval

\* C8: a revise decision with user text U rewrites the query text so that it
\* holds the solution, then U, then the text before the rewrite, and the
\* text the user entered for the query is still in it.
C8_RevisionRoundTrip ==
    [][(pc = "decide" /\ event' = "revise") =>
          /\ InOrder(heap'[query].text, solution, user_input', heap[query].text)
          /\ Contains(heap'[query].text, entered_text)]_vars

\* C9: no step changes what an entry already in the history holds.
C9_HistoryAppendOnly ==
    [][\A i \in 1..Len(conversation_history) :
          /\ i <= Len(conversation_history')
          /\ EntryView(conversation_history'[i], heap') =
                 EntryView(conversation_history[i], heap)]_vars

\* C10: after a save the store holds exactly the last min(10, n) entries of
\* the n-entry history, in their order.
C10_SaveKeepsLastTen ==
    event = "accept" =>
        LET n == Len(conversation_history)
            m == Min(history_keep, n)
        IN  /\ store.valid
            /\ store.entries =
                   [i \in 1..m |-> EntryView(conversation_history[n - m + i], heap)]

\* C11: a text with exactly the four delimiter tokens, each followed by
\* content lines, parses to exactly four sections holding that content with
\* only the blank lines removed; a text with no delimiter token parses to no
\* section and a raw text equal to the input.
C11_ParserRoundTrip ==
    pc = "parsed" =>
        /\ \A c \in ParserCases :
               response_text = CaseText(c) =>
                   /\ DOMAIN thinking.structured_sections = SectionNames
                   /\ \A n \in SectionNames :
                          thinking.structured_sections[n]
                              = JoinLines(c.body[n].nonblank)
        /\ response_text \in PlainTexts =>
               /\ thinking.structured_sections = <<>>
               /\ thinking.raw_response = response_text

\* C11 amended: the four sections hold the content lines with the blank
\* lines removed and the surrounding whitespace of every line removed; a
\* text with no delimiter token parses to no section and a raw text equal to
\* the input.
C11_ParserRoundTripTrimmed ==
    pc = "parsed" =>
        /\ \A c \in ParserCases :
               response_text = CaseText(c) =>
                   /\ DOMAIN thinking.structured_sections = SectionNames
                   /\ \A n \in SectionNames :
                          thinking.structured_sections[n]
                              = JoinLines(c.body[n].trimmed)
        /\ response_text \in PlainTexts =>
               /\ thinking.structured_sections = <<>>
               /\ thinking.raw_response = response_text

\* a text whose reasoning section is an indented line after blank ones has
\* been parsed into four sections
C11_Witness ==
    /\ pc = "parsed"
    /\ \E c \in ParserCases :
           /\ response_text = CaseText(c)
           /\ c.body["reasoning"].lines # c.body["reasoning"].trimmed
           /\ c.body["verification"].lines # c.body["verification"].nonblank
    /\ DOMAIN thinking.structured_sections = SectionNames
    /\ thinking.structured_sections["reasoning"] = <<"c", " ", "d">>

\* The entries of a history that are completed conversations (lines 492-498).
CompletedConversations(h) ==
    SelectSeq(h, LAMBDA item : "workflow_state" \in DOMAIN item)

\* C12: only an accept saves the history file or appends a completed
\* conversation: every other step, a reject and the step that exhausts the
\* iterations among them, leaves the file and the completed conversations of
\* the history as they were.
C12_PersistOnlyOnAccept ==
    [][~(pc = "decide" /\ user_input' \in {<<"y">>, <<"Y">>}) =>
           /\ store' = store
           /\ CompletedConversations(conversation_history')
                  = CompletedConversations(conversation_history)]_vars

\* a query was rejected after a solution was recorded: nothing is on file
C12_Witness ==
    /\ event = "reject"
    /\ user_input = <<"n">>
    /\ pc = "input"
    /\ Len(conversation_history) > 0
    /\ CompletedConversations(conversation_history) = <<>>
    /\ store = NoHistoryFile

\* C13: when a dispatch attempt has completed, with a response of status
\* 200, with another status or with a transport fault, last_request_time is
\* the time at which that attempt completed: the time since last_request_time
\* equals the time since the attempt.
C13_AttemptStampsClock ==
    event \in {"retry", "solver_ok", "solver_failed"} => sinceLast = sinceAttempt

\* C14: the backoff sleep after the first failed attempt is 2 seconds and
\* after the second 4 seconds, for an HTTP non-success status and for a
\* transport fault alike (the cap of 10 is not reached), and no backoff sleep
\* follows the third, final failed attempt or any step that is not a retry.
C14_BackoffSchedule ==
    /\ event = "retry" =>
           /\ attempt \in {2, 3}
           /\ attempt = 2 => backoff_wait = 2
           /\ attempt = 3 => backoff_wait = 4
           /\ sinceAttempt = backoff_wait
    /\ event # "retry" => backoff_wait = 0
    /\ event = "solver_failed" => sinceAttempt = 0

\* the second failed attempt has been followed by its backoff sleep
C14_Witness ==
    /\ event = "retry"
    /\ attempt = 3
    /\ attempts_made = 2
    /\ backoff_wait = 4

\* The review of the last entry of h that carries a non-empty one.
MostRecentReview(h) ==
    LET reviewed == {i \in 1..Len(h) :
                        "review" \in DOMAIN h[i] /\ h[i].review # None}
    IN  IF reviewed = {} THEN None
        ELSE h[CHOOSE i \in reviewed : \A j \in reviewed : j <= i].review

\* The prompt of the Solver call in progress.
CurrentPrompt == EngineerPrompt(previous_review, heap[query].text)

\* C15: at a Solver call the prompt carries, as feedback, the most recent
\* non-empty review of the history whenever there is one, and no review when
\* there is none; the entry the call records has it as previous_review, with
\* addressed_feedback true exactly when there is one.
C15_ReviewInjectedWheneverPresent ==
    /\ pc = "dispatch" =>
           /\ previous_review = MostRecentReview(conversation_history)
           /\ IF MostRecentReview(conversation_history) # None
              THEN Contains(CurrentPrompt,
                            ReviewPointsLabel \o MostRecentReview(conversation_history))
              ELSE ~Contains(CurrentPrompt, ReviewPointsLabel)
    /\ (pc = "review" /\ solution # SentinelMessage) =>
           LET recorded == conversation_history[Len(conversation_history)]
               before == SubSeq(conversation_history, 1, Len(conversation_history) - 1)
           IN  /\ recorded.previous_review = MostRecentReview(before)
               /\ recorded.addressed_feedback = (MostRecentReview(before) # None)

\* What the Solver is to be told under the amended statement.
FeedbackAfterRevise(h) ==
    IF Contains(heap[query].text, PreviousSolutionLabel)
    THEN MostRecentReview(h) ELSE None

\* C15 amended: at a Solver call whose query text holds "Previous solution:"
\* (a revise decision has rewritten it) the prompt carries the most recent
\* non-empty review of the history, if there is one; at any other Solver call
\* no review is injected.  The entry the call records has that review, or
\* none, as previous_review, with addressed_feedback true exactly when there
\* is one.
C15_ReviewInjectedOnRevision ==
    /\ pc = "dispatch" =>
           /\ previous_review = FeedbackAfterRevise(conversation_history)
           /\ IF FeedbackAfterRevise(conversation_history) # None
              THEN Contains(CurrentPrompt,
                            ReviewPointsLabel \o FeedbackAfterRevise(conversation_history))
              ELSE ~Contains(CurrentPrompt, ReviewPointsLabel)
    /\ (pc = "review" /\ solution # SentinelMessage) =>
           LET recorded == conversation_history[Len(conversation_history)]
               before == SubSeq(conversation_history, 1, Len(conversation_history) - 1)
           IN  /\ recorded.previous_review = FeedbackAfterRevise(before)
               /\ recorded.addressed_feedback = (FeedbackAfterRevise(before) # None)

\* a Solver call after a revise has recorded its entry with the latest review
\* of the loaded history
C15_Witness ==
    /\ pc = "review"
    /\ solution # SentinelMessage
    /\ Contains(heap[query].text, PreviousSolutionLabel)
    /\ conversation_history[Len(conversation_history)].type = "engineer_solution"
    /\ conversation_history[Len(conversation_history)].previous_review
           = <<"earlier review 2">>
    /\ conversation_history[Len(conversation_history)].addressed_feedback

\* C16: when a revise decision starts another iteration, the feedback the
\* Solver is given in it is the critique the Reviewer produced in the
\* iteration that the decision closed.
C16_FeedbackIsLastCritique ==
    [][(pc = "decide" /\ event' = "revise" /\ pc' = "dispatch") =>
           /\ previous_review' = review
           /\ Contains(EngineerPrompt(previous_review', heap'[query'].text),
                       ReviewPointsLabel \o review)]_vars

\* The non-empty reviews of a history, oldest first.
ReviewsIn(h) ==
    LET reviewed == SelectSeq(h, LAMBDA item :
                                 "review" \in DOMAIN item /\ item.review # None)
    IN  [i \in 1..Len(reviewed) |-> reviewed[i].review]

\* C17: the context of a Reviewer call holds the reviews of the last three
\* history entries that carry a review, wherever they sit in the history,
\* oldest first.
C17_ContextLastThreeReviews ==
    pc = "review" =>
        review_context(conversation_history)
            = LastN(ReviewsIn(conversation_history), 3)

\* C18: a Solver call whose dispatch succeeded appends exactly one
\* EngineerSolution entry to the history; one whose dispatch failed after its
\* retries were used up, by HTTP non-success statuses or by transport faults,
\* appends none and returns the sentinel message.
C18_EntryOnlyOnDispatchSuccess ==
    [][pc = "dispatch" =>
           /\ event' = "solver_ok" =>
                  /\ Len(conversation_history') = Len(conversation_history) + 1
                  /\ conversation_history'[Len(conversation_history')].type
                         = "engineer_solution"
           /\ event' = "solver_failed" =>
                  /\ conversation_history' = conversation_history
                  /\ solution' = SentinelMessage]_vars

\* C20: the attempts of a dispatch do not move the iteration counter: it
\* stays where it is while a Solver call retries and when the call returns a
\* solution, after one, two or three attempts, and the iteration goes on to
\* the review; the counter and the number of Solver calls advance together,
\* by one, only when the loop starts another iteration.
C20_OneUnitPerSolverCall ==
    [][pc = "dispatch" =>
           /\ event' = "retry" => (iteration' = iteration /\ pc' = "dispatch")
           /\ pc' = "review" =>
                  /\ iteration' = iteration
                  /\ attempts_made' \in 1..max_attempts
           /\ (event' = "solver_ok" /\ solution' # None) => pc' = "review"
           /\ iteration' - iteration = calls' - calls
           /\ iteration' - iteration \in {0, 1}]_vars

\* the first Solver call failed twice, succeeded at its third attempt, and
\* the first iteration is at its review
C20_Witness ==
    /\ event = "solver_ok"
    /\ attempts_made = 3
    /\ pc = "review"
    /\ solution = <<"S1">>
    /\ iteration = 1
    /\ calls = 1

\* C19: at most one remote call is in flight: while a Solver dispatch or a
\* Reviewer call is in progress, no review call abandoned at its timeout is
\* still running.
C19_OneRemoteCallInFlight ==
    pc \in {"dispatch", "review"} => review_threads = 0

\* C21: the "Maximum iterations reached" notice is printed only for a query
\* whose iteration counter reached the cap with neither an accept nor a
\* reject; a query ended by a reject ends without the notice.
C21_NoticeOnlyOnExhaustion ==
    /\ (pc = "input" /\ notice = "max_iterations") =>
           /\ iteration = max_iterations
           /\ event \notin {"accept", "reject"}
    /\ (pc = "input" /\ event = "reject") => notice = "none"

\* The number of system messages in a list of messages.
SystemMessages(messages) ==
    Cardinality({i \in 1..Len(messages) : messages[i] = "system"})

\* C22: the request of every attempt of a dispatch, the retries included,
\* holds the system instruction exactly once, ahead of the turn the Solver
\* Adapter supplied, and that turn unchanged.
C22_SystemInstructionOnce ==
    pc = "dispatch" =>
        /\ SystemMessages(RequestSent) = 1
        /\ RequestSent[1] = "system"
        /\ Tail(RequestSent) = <<"user">>

====
